---- MODULE Spec2Model ----
(***************************************************************************)
(* proquest-dl: download the articles of a periodical issue from ProQuest  *)
(* and assemble them into one page-accurate, bookmarked PDF.               *)
(*                                                                         *)
(* The model follows src/proquest_dl/proquest_dl.py (the pipeline and      *)
(* main) and src/src/ProQuestWebScraper.py (the scraper).  File names and  *)
(* citations are strings, modelled as sequences of character codes, so     *)
(* that str(), int(), split(), sorted() and natsorted() are computed as    *)
(* Python computes them.  A PDF is the sequence of its pages.              *)
(***************************************************************************)
EXTENDS Integers, Sequences, FiniteSets, TLC

(***************************************************************************)
(* Bounds of the model.                                                    *)
(***************************************************************************)
\* highest printed page number a citation of the modelled issues names
MaxPage == 3
\* highest number of result entries of an issue page
MaxItems == 2
\* highest number of comma-joined parts of a citation handed to the parser
MaxParts == 2

(***************************************************************************)
(* Characters.                                                             *)
(***************************************************************************)
Space == 32
Comma == 44
Hyphen == 45
Dot == 46
ZeroCh == 48
LetterP == 112

IsDigit(c) == c >= ZeroCh /\ c <= ZeroCh + 9

\* str(n) for a natural number n
RECURSIVE Digits(_)
Digits(n) ==
    IF n < 10 THEN <<ZeroCh + n>>
    ELSE Digits(n \div 10) \o <<ZeroCh + (n % 10)>>

\* int(s) succeeds: the strings of the model hold digits, commas, hyphens
\* and the letter p only, and int() of such a string succeeds exactly on a
\* non-empty digit run
IsInt(s) == Len(s) > 0 /\ \A i \in 1..Len(s) : IsDigit(s[i])

\* int(s) for a digit string
RECURSIVE IntVal(_)
IntVal(s) ==
    IF Len(s) = 0 THEN 0
    ELSE IntVal(SubSeq(s, 1, Len(s) - 1)) * 10 + (s[Len(s)] - ZeroCh)

\* s.split(c)
RECURSIVE Split(_, _)
Split(s, c) ==
    IF \E i \in 1..Len(s) : s[i] = c
    THEN LET i == CHOOSE k \in 1..Len(s) :
                      s[k] = c /\ \A j \in 1..(k - 1) : s[j] # c
         IN  <<SubSeq(s, 1, i - 1)>> \o Split(SubSeq(s, i + 1, Len(s)), c)
    ELSE <<s>>

\* c.join(strs)
RECURSIVE Join(_, _)
Join(strs, c) ==
    IF Len(strs) = 0 THEN <<>>
    ELSE IF Len(strs) = 1 THEN strs[1]
    ELSE strs[1] \o <<c>> \o Join(Tail(strs), c)

\* s.replace(c, "")
RECURSIVE Remove(_, _)
Remove(s, c) ==
    IF Len(s) = 0 THEN <<>>
    ELSE IF s[1] = c THEN Remove(Tail(s), c)
    ELSE <<s[1]>> \o Remove(Tail(s), c)

\* s < t for Python strings: lexicographic on the character codes
RECURSIVE LexLess(_, _)
LexLess(s, t) ==
    IF Len(t) = 0 THEN FALSE
    ELSE IF Len(s) = 0 THEN TRUE
    ELSE IF s[1] # t[1] THEN s[1] < t[1]
    ELSE LexLess(Tail(s), Tail(t))

\* sorted(xs) for a list of integers
RECURSIVE InsertInt(_, _)
InsertInt(x, s) ==
    IF Len(s) = 0 THEN <<x>>
    ELSE IF x < s[1] THEN <<x>> \o s
    ELSE <<s[1]>> \o InsertInt(x, Tail(s))

RECURSIVE SortedInts(_)
SortedInts(s) ==
    IF Len(s) = 0 THEN <<>> ELSE InsertInt(s[1], SortedInts(Tail(s)))

\* sorted(xs) for a list of strings
RECURSIVE InsertStr(_, _)
InsertStr(x, s) ==
    IF Len(s) = 0 THEN <<x>>
    ELSE IF LexLess(x, s[1]) THEN <<x>> \o s
    ELSE <<s[1]>> \o InsertStr(x, Tail(s))

RECURSIVE SortedStrs(_)
SortedStrs(s) ==
    IF Len(s) = 0 THEN <<>> ELSE InsertStr(s[1], SortedStrs(Tail(s)))

Range(s) == {s[i] : i \in 1..Len(s)}

Min(S) == CHOOSE x \in S : \A y \in S : x <= y
Max(S) == CHOOSE x \in S : \A y \in S : x >= y

\* the elements of a finite set of integers in ascending order
RECURSIVE Ascending(_)
Ascending(S) ==
    IF S = {} THEN <<>> ELSE <<Min(S)>> \o Ascending(S \ {Min(S)})

RECURSIVE Flatten(_)
Flatten(ss) == IF Len(ss) = 0 THEN <<>> ELSE ss[1] \o Flatten(Tail(ss))

(***************************************************************************)
(* Citations: the text of span.jnlArticle of a result entry.  A citation   *)
(* with pages ends in ": <parts>." where the parts are "a" or "a-b",       *)
(* joined by ", "; a citation without pages has no colon.                  *)
(***************************************************************************)
\* one part of a citation: the page a (hi = 0) or the range a-hi
Parts ==
    [lo : 1..MaxPage, hi : {0}]
        \cup {p \in [lo : 1..MaxPage, hi : 1..MaxPage] : p.lo < p.hi}

PartStr(p) ==
    IF p.hi = 0 THEN Digits(p.lo)
    ELSE Digits(p.lo) \o <<Hyphen>> \o Digits(p.hi)

\* the printed pages a part stands for
PartPages(p) == IF p.hi = 0 THEN {p.lo} ELSE p.lo..p.hi

\* the text after the colon of a citation whose parts are ps
LocText(ps) ==
    <<Space>> \o
    Join([i \in 1..Len(ps) |->
            IF i = 1 THEN PartStr(ps[i]) ELSE <<Space>> \o PartStr(ps[i])],
         Comma)
    \o <<Dot>>

\* a citation: colon says whether the text has a ':', text is what follows it
Loc(ps) == [colon |-> TRUE, text |-> LocText(ps), parts |-> ps]
NoPagesLoc == [colon |-> FALSE, text |-> <<>>, parts |-> <<>>]

\* the printed pages a citation stands for: every a-b expanded to a..b,
\* the union over the parts
CitedPages(loc) == UNION {PartPages(loc.parts[i]) : i \in 1..Len(loc.parts)}

(***************************************************************************)
(* retrieve_articles_list: the page-range parser.                          *)
(***************************************************************************)
\* the integers of one comma-separated part: page_part.split("-"), int() each
PartInts(part) ==
    LET ends == Split(part, Hyphen)
    IN  [ok    |-> \A i \in 1..Len(ends) : IsInt(ends[i]),
         pages |-> [i \in 1..Len(ends) |-> IntVal(ends[i])]]

\* the try block: the pages list, or not ok when an exception is raised
ParsePages(loc) ==
    IF ~loc.colon THEN [ok |-> FALSE, pages |-> <<>>]
    ELSE
      LET pages_str == Remove(Remove(loc.text, Dot), Space)
          parts     == Split(pages_str, Comma)
          ints      == [i \in 1..Len(parts) |-> PartInts(parts[i])]
      IN  IF \A i \in 1..Len(parts) : ints[i].ok
          THEN [ok |-> TRUE,
                pages |-> Flatten([i \in 1..Len(parts) |-> ints[i].pages])]
          ELSE [ok |-> FALSE, pages |-> <<>>]

(***************************************************************************)
(* The web site (external collaborator): the result entries of the issue   *)
(* page, and the PDF the server returns for an entry.                      *)
(***************************************************************************)
TocTitle == "Table of Contents"
Titles == {"A", TocTitle}

Economist == "41716"
TechReview == "35850"
OtherPublication == "10000"
Publications == {Economist, TechReview, OtherPublication}

\* a result entry: title, citation, and whether it has an a.format_pdf link
Item(title, loc, haspdf) == [title |-> title, loc |-> loc, haspdf |-> haspdf]

\* the citations of one part
PartLocs == {Loc(<<p>>) : p \in Parts}
\* the citations of two single pages a, b with a < b
PairLocs == {Loc(<<p, q>>) : p, q \in {r \in Parts : r.hi = 0}} \ 
            {l \in {Loc(<<p, q>>) : p, q \in {r \in Parts : r.hi = 0}} :
                 l.parts[1].lo >= l.parts[2].lo}

\* the entries of the issues main is run on: articles cited by one part
\* (or, malformed, by none), and a table of contents without or with pages
ItemSet ==
    {Item("A", l, TRUE) : l \in PartLocs \cup {NoPagesLoc}}
        \cup {Item(TocTitle, l, TRUE) :
                 l \in {NoPagesLoc, Loc(<<[lo |-> 2, hi |-> 3]>>)}}

ItemLists == UNION {[1..n -> ItemSet] : n \in 0..MaxItems}

\* a page of a PDF: an article page showing printed page pp of entry src,
\* the trailing copyright notice, a blank filler, the cover, a page of the
\* generated table of contents, or a page of a file of an earlier run
\* (crop: the page carries a crop box)
ArticlePage(src, pp) ==
    [kind |-> "page", src |-> src, pp |-> pp, crop |-> TRUE]
CopyrightPage(src) ==
    [kind |-> "copyright", src |-> src, pp |-> 0, crop |-> TRUE]
BlankPage == [kind |-> "blank", src |-> 0, pp |-> 0, crop |-> FALSE]
CoverPage == [kind |-> "cover", src |-> 0, pp |-> 1, crop |-> FALSE]
GeneratedTocPage(n) == [kind |-> "gentoc", src |-> 0, pp |-> n, crop |-> FALSE]
PriorPage == [kind |-> "prior", src |-> 0, pp |-> 0, crop |-> FALSE]
\* a page of a file something else writes while the run is going
OtherPage == [kind |-> "other", src |-> 0, pp |-> 0, crop |-> FALSE]

\* the PDF of an entry: its printed pages in ascending order, followed by
\* the copyright notice page
PdfOfPages(src, pages) ==
    LET asc == Ascending(pages)
    IN  [i \in 1..Len(asc) |-> ArticlePage(src, asc[i])] \o <<CopyrightPage(src)>>

\* The Economist's table of contents has no pages in its citation: where it
\* starts and how long it is shows only in the PDF.  Bounds of the code's
\* sanity checks, and the values the model draws around them.
MaxTocStart == 10
MaxTocLen == 5
TocStarts == {0, 2, MaxTocStart - 1, MaxTocStart + 1}
TocLens == {0, 2, MaxTocLen + 1}

\* the PDFs the server may return for result entry i
ServerPdfs(its, i) ==
    IF its[i].loc.colon
    THEN {PdfOfPages(i, CitedPages(its[i].loc))}
    ELSE {PdfOfPages(i, s..(s + n - 1)) : s \in TocStarts, n \in TocLens}

(***************************************************************************)
(* State.                                                                  *)
(***************************************************************************)
VARIABLES
    pc,               \* position of main
    failedAt,         \* the position at which the run aborted, or "none"
    items,            \* the result entries the issue page shows
    publication_id,   \* args.publication_id
    finalFile,        \* the file at args.outdir / issue.build_final_fp()
    issue,            \* the Issue: toc and articles
    cur,              \* download_articles: index of the article in turn
    captchas,         \* captchas met so far
    downloaded_pages, \* scraper.downloaded_pages
    outcome,          \* per article: how download_article ended
    log,              \* network accesses, operator inputs and sleeps, in order
    artdir1,          \* download/1_articles: file name -> PDF
    artdir2,          \* download/2_articles
    artdir3,          \* download/3_articles
    pagesdir,         \* download/4_pages
    tocdir,           \* download/toc
    extracted,        \* explode: the qpdf page extractions done, in order
    mergeCmd,         \* merge_pdf: the files handed to qpdf, in order
    outputPdf,        \* download/output*.pdf
    bookmarks,        \* download/bookmark.txt: the lines written
    run,              \* the number of the run over this working directory
    atStart,          \* the directories as the run found them
    sleeping,         \* the seconds of the time.sleep in progress, or 0
    args,             \* args.tmpdir and args.continue_download
    existing          \* the working directories that exist on disk

vars == <<pc, failedAt, items, publication_id, finalFile, issue, cur,
          captchas, downloaded_pages, outcome, log, artdir1, artdir2,
          artdir3, pagesdir, tocdir, extracted, mergeCmd, outputPdf,
          bookmarks, run, atStart, sleeping, args, existing>>

fetchVars == <<cur, captchas, downloaded_pages, outcome, artdir1, tocdir,
               run, atStart>>
stageVars == <<artdir2, artdir3, pagesdir, extracted, mergeCmd, outputPdf,
               bookmarks>>

\* a directory is a function from the names of its files to their content;
\* a file of artdir*/pagesdir is named by the text between "pages_" and ".pdf"
EmptyDir == <<>>
Names(dir) == DOMAIN dir
WriteFile(dir, name, content) ==
    [n \in DOMAIN dir \cup {name} |-> IF n = name THEN content ELSE dir[n]]
DeleteFile(dir, name) == [n \in DOMAIN dir \ {name} |-> dir[n]]

Absent == [present |-> FALSE, pages |-> <<>>]
File(pages) == [present |-> TRUE, pages |-> pages]

(***************************************************************************)
(* retrieve_articles_list                                                  *)
(***************************************************************************)
Article(title, pages, pdfurl, is_toc) ==
    [title |-> title, pages |-> pages, pdfurl |-> pdfurl, is_toc |-> is_toc]

\* a parser for which no entry has to have pages
ParseErrorNeverFatal(title) == FALSE

\* the except branch: "Table of Contents has no page number", pages = None;
\* for any other title the exception is raised again
ParseErrorIsFatal(title) == title # TocTitle

\* the loop over the result entries from entry i on, acc the Issue so far;
\* ok is FALSE when the loop raised
RECURSIVE RetrieveFrom(_, _, _)
RetrieveFrom(its, i, acc) ==
    IF i > Len(its) THEN acc
    ELSE
      LET title  == its[i].title
          is_toc == title = TocTitle
          toc    == acc.toc \/ is_toc
          parsed == ParsePages(its[i].loc)
      IN  IF ~parsed.ok /\ ParseErrorIsFatal(title)
          THEN [acc EXCEPT !.ok = FALSE, !.toc = toc]
          ELSE IF ~its[i].haspdf
          THEN RetrieveFrom(its, i + 1, [acc EXCEPT !.toc = toc])
          ELSE RetrieveFrom(its, i + 1,
                 [acc EXCEPT !.toc = toc,
                             !.articles = Append(@,
                                 Article(title, parsed.pages, i, is_toc))])

retrieve_articles_list(its) ==
    RetrieveFrom(its, 1, [ok |-> TRUE, toc |-> FALSE, articles |-> <<>>])

(***************************************************************************)
(* download_article                                                        *)
(***************************************************************************)
\* the mark of the table of contents in downloaded_pages: "toc"
TocMark == 0

page_range(article) ==
    IF article.is_toc THEN {TocMark}
    ELSE Min(Range(article.pages))..Max(Range(article.pages))

\* the file name of a non-TOC article, between "pages_" and ".pdf"
pages_str(article) ==
    LET sorted == SortedInts(article.pages)
    IN  Join([i \in 1..Len(sorted) |-> Digits(sorted[i])], Comma)

TocFile == "pages_toc.pdf"

\* a download_article without the test for the file
FileExistsUntested(article, a1, td) == FALSE

\* pdffn.is_file()
FileExists(article, a1, td) ==
    IF article.is_toc THEN TocFile \in Names(td)
    ELSE pages_str(article) \in Names(a1)

Abort == /\ pc' = "aborted"
         /\ failedAt' = pc

(***************************************************************************)
(* main, from "Open web browser" to download_articles                      *)
(***************************************************************************)
Event(op, url) == [op |-> op, url |-> url]

\* url of the publication page; an article's url is the index of its entry
PublicationUrl == 0

\* what a run finds in the directories of its working directory
Found(a1, a2, a3, pd, td) ==
    [artdir1 |-> a1, artdir2 |-> a2, artdir3 |-> a3, pagesdir |-> pd,
     tocdir |-> td]

(***************************************************************************)
(* The arguments and the working directories                               *)
(***************************************************************************)
\* --tmpdir as argparse stores it when the option is absent: a str
DefaultTmpdir == "./proquest-dl-temp"

\* the five directories under download
SubDirs == {"1_articles", "2_articles", "3_articles", "4_pages", "toc"}

\* args.tmpdir, download and the five directories under it
WorkingDirs == {"tmpdir", "download"} \cup SubDirs

\* the directories on disk after the six mkdir(parents=True) of main
mkdirs(dirs) == dirs \cup WorkingDirs

\* a first run without options
RunArgs == [tmpdir |-> DefaultTmpdir, continue_download |-> FALSE]

\* main at position at, of a run in a new working directory
InitRun(at, its, pub, final, iss) ==
    /\ pc = at
    /\ failedAt = "none"
    /\ items = its
    /\ publication_id = pub
    /\ finalFile = final
    /\ issue = iss
    /\ cur = 1
    /\ captchas = 0
    /\ downloaded_pages = {}
    /\ outcome = [a \in 1..Len(iss.articles) |-> "pending"]
    /\ log = <<>>
    /\ artdir1 = EmptyDir
    /\ artdir2 = EmptyDir
    /\ artdir3 = EmptyDir
    /\ pagesdir = EmptyDir
    /\ tocdir = EmptyDir
    /\ extracted = <<>>
    /\ mergeCmd = <<>>
    /\ outputPdf = Absent
    /\ bookmarks = <<>>
    /\ run = 1
    /\ atStart = Found(EmptyDir, EmptyDir, EmptyDir, EmptyDir, EmptyDir)
    /\ sleeping = 0
    /\ args = RunArgs
    /\ existing = mkdirs({})

NewIssue == [toc |-> FALSE, articles |-> <<>>]

Init ==
    \E its \in ItemLists, pub \in Publications,
       final \in {Absent, File(<<PriorPage>>)} :
        InitRun("connect", its, pub, final, NewIssue)

\* scraper.browser.get(proquest_url), login
Connect ==
    /\ UNCHANGED <<sleeping, args, existing>>
    /\ pc = "connect"
    /\ log' = Append(log, Event("get", PublicationUrl))
    /\ pc' = "read_issue"
    /\ UNCHANGED <<failedAt, items, publication_id, finalFile, issue>>
    /\ UNCHANGED <<fetchVars, stageVars>>

\* get_publication_name, get_art_count, get_issue_date
ReadIssue ==
    /\ UNCHANGED <<sleeping, args, existing>>
    /\ pc = "read_issue"
    /\ IF Len(items) = 0
       THEN \* get_art_count: three rounds of click and refresh, then raise
            /\ log' = log \o [i \in 1..3 |-> Event("refresh", PublicationUrl)]
            /\ Abort
       ELSE IF publication_id \notin {Economist, TechReview}
       THEN \* get_issue_date: no logic for this publication
            /\ log' = log
            /\ Abort
       ELSE /\ log' = log
            /\ pc' = "check_output"
            /\ failedAt' = failedAt
    /\ UNCHANGED <<items, publication_id, finalFile, issue>>
    /\ UNCHANGED <<fetchVars, stageVars>>

\* a main without the assertion
OutputFreeUnchecked(final) == TRUE

\* assert not pdf_fp.is_file()
OutputFree(final) == ~final.present

\* pdf_fp = args.outdir / issue.build_final_fp(); assert not pdf_fp.is_file()
CheckOutput ==
    /\ UNCHANGED <<sleeping, args, existing>>
    /\ pc = "check_output"
    /\ IF OutputFree(finalFile)
       THEN pc' = "retrieve" /\ failedAt' = failedAt
       ELSE Abort
    /\ UNCHANGED <<items, publication_id, finalFile, issue, log>>
    /\ UNCHANGED <<fetchVars, stageVars>>

\* scraper.retrieve_articles_list(issue)
RetrieveArticlesList ==
    /\ UNCHANGED <<sleeping, args, existing>>
    /\ UNCHANGED <<run, atStart>>
    /\ pc = "retrieve"
    /\ LET r == retrieve_articles_list(items)
       IN  /\ issue' = [toc |-> r.toc, articles |-> r.articles]
           /\ outcome' = [a \in 1..Len(r.articles) |-> "pending"]
           /\ IF r.ok THEN pc' = "download" /\ failedAt' = failedAt
              ELSE Abort
    /\ UNCHANGED <<items, publication_id, finalFile, log, cur, captchas,
                   downloaded_pages, artdir1, tocdir>>
    /\ UNCHANGED stageVars

\* a download_article that adds the pages of an article only when it
\* goes on to download it
pages_updated_on_download(downloaded, article, a1, td) ==
    IF FileExists(article, a1, td) THEN downloaded
    ELSE downloaded \cup page_range(article)

\* self.downloaded_pages.update(page_range), made before the test for the
\* file
pages_updated(downloaded, article, a1, td) ==
    downloaded \cup page_range(article)

\* download_article up to "Browse to article URL": the two skips
DownloadArticle ==
    /\ UNCHANGED <<sleeping, args, existing>>
    /\ UNCHANGED <<run, atStart>>
    /\ pc = "download"
    /\ cur <= Len(issue.articles)
    /\ LET article == issue.articles[cur]
           missing_pages == page_range(article) \ downloaded_pages
       IN  IF missing_pages = {}
           THEN /\ outcome' = [outcome EXCEPT ![cur] = "covered"]
                /\ cur' = cur + 1
                /\ pc' = pc
                /\ UNCHANGED downloaded_pages
           ELSE /\ downloaded_pages' = pages_updated(downloaded_pages, article,
                                                      artdir1, tocdir)
                /\ IF FileExists(article, artdir1, tocdir)
                   THEN /\ outcome' = [outcome EXCEPT ![cur] = "exists"]
                        /\ cur' = cur + 1
                        /\ pc' = pc
                   ELSE /\ pc' = "navigate"
                        /\ UNCHANGED <<outcome, cur>>
    /\ UNCHANGED <<failedAt, items, publication_id, finalFile, issue, log,
                   captchas, artdir1, tocdir>>
    /\ UNCHANGED stageVars

\* highest number of captchas the site shows in a run
MaxCaptcha == 1

\* a loop that goes on to the PDF whatever check_captcha returns
BreakAfterCheckCaptcha(found) == "resolve"

\* the loop "Browse to article URL": if self.check_captcha(): continue,
\* else: break
AfterCheckCaptcha(found) == IF found THEN "navigate" ELSE "resolve"

\* self.browser.get(article.pdfurl); check_captcha() finds none
Navigate ==
    /\ UNCHANGED <<sleeping, args, existing>>
    /\ pc = "navigate"
    /\ log' = Append(log, Event("get", issue.articles[cur].pdfurl))
    /\ pc' = AfterCheckCaptcha(FALSE)
    /\ UNCHANGED <<failedAt, items, publication_id, finalFile, issue>>
    /\ UNCHANGED <<fetchVars, stageVars>>

\* self.browser.get(article.pdfurl); check_captcha() finds the captcha form
\* and blocks in input()
NavigateCaptcha ==
    /\ UNCHANGED <<sleeping, args, existing>>
    /\ UNCHANGED <<run, atStart>>
    /\ pc = "navigate"
    /\ captchas < MaxCaptcha
    /\ captchas' = captchas + 1
    /\ log' = Append(log, Event("get", issue.articles[cur].pdfurl))
    /\ pc' = "captcha"
    /\ UNCHANGED <<failedAt, items, publication_id, finalFile, issue, cur,
                   downloaded_pages, outcome, artdir1, tocdir>>
    /\ UNCHANGED stageVars

\* the operator solves the captcha and presses a key: check_captcha returns
\* True and the loop navigates again
OperatorInput ==
    /\ UNCHANGED <<sleeping, args, existing>>
    /\ pc = "captcha"
    /\ log' = Append(log, Event("input", issue.articles[cur].pdfurl))
    /\ pc' = AfterCheckCaptcha(TRUE)
    /\ UNCHANGED <<failedAt, items, publication_id, finalFile, issue>>
    /\ UNCHANGED <<fetchVars, stageVars>>

\* a download_article that gives up the article and returns
DropArticleAfterTimeout(i) == [pc |-> "download", cur |-> i + 1]

\* where the run is after the wait for the embedded PDF of article i has
\* timed out: wait_element_to_be_visible logs and raises the
\* TimeoutException again, and nothing catches it
AfterTimeout(i) == [pc |-> "aborted", cur |-> i]

\* wait_element_to_be_visible_css times out: TimeoutException
ResolveTimeout ==
    /\ UNCHANGED <<sleeping, args, existing>>
    /\ pc = "resolve"
    /\ pc' = AfterTimeout(cur).pc
    /\ cur' = AfterTimeout(cur).cur
    /\ failedAt' = "resolve"
    /\ UNCHANGED <<items, publication_id, finalFile, issue, log, captchas,
                   downloaded_pages, outcome, artdir1, tocdir, run, atStart>>
    /\ UNCHANGED stageVars

\* sleep_time, the bounds of the delay between two articles
sleep_time == <<5, 10>>

\* a delay that may be shorter than the lower bound
uniform_up_to(a, b) == 0..b

\* random.uniform(a, b), in whole seconds
uniform(a, b) == a..b

\* requests.get(pdf_file_url), write the file, and enter
\* time.sleep(random.uniform(*sleep_time))
FetchPdf ==
    /\ UNCHANGED <<run, atStart>>
    /\ pc = "resolve"
    /\ LET article == issue.articles[cur]
       IN  \E data \in ServerPdfs(items, article.pdfurl) :
             /\ IF article.is_toc
                THEN /\ tocdir' = WriteFile(tocdir, TocFile, data)
                     /\ UNCHANGED artdir1
                ELSE /\ artdir1' = WriteFile(artdir1, pages_str(article), data)
                     /\ UNCHANGED tocdir
             /\ log' = Append(log, Event("fetch", article.pdfurl))
    /\ outcome' = [outcome EXCEPT ![cur] = "fetched"]
    /\ \E t \in uniform(sleep_time[1], sleep_time[2]) : sleeping' = t
    /\ UNCHANGED <<args, existing>>
    /\ pc' = "sleep"
    /\ UNCHANGED <<failedAt, items, publication_id, finalFile, issue, cur,
                   captchas, downloaded_pages>>
    /\ UNCHANGED stageVars

\* time.sleep returns, and download_article with it
Wake ==
    /\ pc = "sleep"
    /\ log' = Append(log, Event("sleep", issue.articles[cur].pdfurl))
    /\ sleeping' = 0
    /\ UNCHANGED <<args, existing>>
    /\ cur' = cur + 1
    /\ pc' = "download"
    /\ UNCHANGED <<failedAt, items, publication_id, finalFile, issue,
                   captchas, downloaded_pages, outcome, artdir1, tocdir,
                   run, atStart>>
    /\ UNCHANGED stageVars

\* download_articles has gone through the list: scraper.browser.close()
CloseBrowser ==
    /\ UNCHANGED <<sleeping, args, existing>>
    /\ pc = "download"
    /\ cur > Len(issue.articles)
    /\ pc' = "strip_last"
    /\ UNCHANGED <<failedAt, items, publication_id, finalFile, issue, log>>
    /\ UNCHANGED <<fetchVars, stageVars>>

(***************************************************************************)
(* The PDF stages                                                          *)
(***************************************************************************)
\* qpdf --empty --pages infp 1-r2: all pages but the last; qpdf fails on a
\* file of fewer than two pages
remove_last_page(pdf) ==
    [ok |-> Len(pdf) >= 2, pages |-> SubSeq(pdf, 1, Len(pdf) - 1)]

\* qpdf --qdf, sed: the same pages without their crop boxes
remove_crop_box(pdf) == [i \in 1..Len(pdf) |-> [pdf[i] EXCEPT !.crop = FALSE]]

\* the orders iterdir() can give the files of a directory in
Orders(S) ==
    {o \in [1..Cardinality(S) -> S] :
        \A i, j \in 1..Cardinality(S) : i # j => o[i] # o[j]}

\* the loop of remove_last_page_from_articles over the files in one order:
\* the assert after qpdf ends it at the first file qpdf fails on
RECURSIVE RemoveLastPages(_, _, _)
RemoveLastPages(infps, indir, st) ==
    IF Len(infps) = 0 \/ ~st.ok THEN st
    ELSE LET r == remove_last_page(indir[infps[1]])
         IN  RemoveLastPages(Tail(infps), indir,
               IF r.ok
               THEN [ok |-> TRUE, dir |-> WriteFile(st.dir, infps[1], r.pages)]
               ELSE [st EXCEPT !.ok = FALSE])

\* the name sed -i.bak gives its backup of the file name: name.bak
Bak(name) == name \o <<Dot, 98, 97, 107>>

\* a remove_crop_box_qpdf that leaves the backup where it is
unlink_nothing(dir, name) == dir

\* bakfp.unlink()
unlink(dir, name) == DeleteFile(dir, name)

\* remove_crop_box_qpdf(infp, outfp) in the directory of outfp: qpdf --qdf
\* writes outfp, sed -i.bak blanks the crop boxes in it and keeps the qpdf
\* output as outfp.bak, which is then removed
remove_crop_box_qpdf(dir, name, pdf) ==
    unlink(WriteFile(WriteFile(dir, name, remove_crop_box(pdf)),
                     Bak(name), pdf),
           Bak(name))

\* the loop of remove_cropbox_from_articles over the files in one order
RECURSIVE RemoveCropBoxes(_, _, _)
RemoveCropBoxes(infps, indir, st) ==
    IF Len(infps) = 0 THEN st
    ELSE RemoveCropBoxes(Tail(infps), indir,
           [ok  |-> TRUE,
            dir |-> remove_crop_box_qpdf(st.dir, infps[1], indir[infps[1]])])

Stage(outdir) == [ok |-> TRUE, dir |-> outdir]

\* remove_last_page_from_articles(artdir1, artdir2)
StripLastPage ==
    /\ UNCHANGED <<sleeping, args, existing>>
    /\ pc = "strip_last"
    /\ \E infps \in Orders(Names(artdir1)) :
         LET r == RemoveLastPages(infps, artdir1, Stage(artdir2))
         IN  /\ artdir2' = r.dir
             /\ IF r.ok THEN pc' = "strip_crop" /\ failedAt' = failedAt
                ELSE Abort
    /\ UNCHANGED <<items, publication_id, finalFile, issue, log, fetchVars,
                   artdir3, pagesdir, extracted, mergeCmd, outputPdf,
                   bookmarks>>

\* remove_cropbox_from_articles(artdir2, artdir3);
\* fn = next(artdir3.iterdir()); issue.page_size = get_page_size(fn)
StripCropBox ==
    /\ UNCHANGED <<sleeping, args, existing>>
    /\ pc = "strip_crop"
    /\ \E infps \in Orders(Names(artdir2)) :
         artdir3' = RemoveCropBoxes(infps, artdir2, Stage(artdir3)).dir
    /\ IF Names(artdir3') = {} THEN Abort   \* next() of nothing: StopIteration
       ELSE pc' = "rename_toc" /\ failedAt' = failedAt
    /\ UNCHANGED <<items, publication_id, finalFile, issue, log, fetchVars,
                   artdir2, pagesdir, extracted, mergeCmd, outputPdf,
                   bookmarks>>

TocFile2 == "pages_toc_2.pdf"

\* a page range that runs one page too far
TocPageRangeThroughEnd(page_start, npages) ==
    Join([i \in 1..(npages + 1) |-> Digits(page_start + i - 1)], Comma)

\* the page range economist_rename_toc names the TOC file by
TocPageRange(page_start, npages) ==
    Join([i \in 1..npages |-> Digits(page_start + i - 1)], Comma)

\* economist_rename_toc(issue, tocdir, artdir3)
EconomistRenameToc ==
    /\ UNCHANGED <<sleeping, args, existing>>
    /\ UNCHANGED <<run, atStart>>
    /\ pc = "rename_toc"
    /\ IF publication_id # Economist \/ ~issue.toc
       THEN /\ pc' = "generate_toc"
            /\ UNCHANGED <<failedAt, tocdir, artdir3>>
       ELSE IF TocFile \notin Names(tocdir)
       THEN Abort /\ UNCHANGED <<tocdir, artdir3>>     \* qpdf: no such file
       ELSE IF ~remove_last_page(tocdir[TocFile]).ok
       THEN Abort /\ UNCHANGED <<tocdir, artdir3>>
       ELSE
         LET tocpdf2    == remove_last_page(tocdir[TocFile]).pages
             \* the page number printed in the top right corner of page 1
             page_start == tocpdf2[1].pp
             npages     == Len(tocpdf2)
         IN  /\ tocdir' = WriteFile(tocdir, TocFile2, tocpdf2)
             /\ IF /\ 0 < page_start /\ page_start <= MaxTocStart
                   /\ 0 < npages /\ npages <= MaxTocLen
                THEN /\ artdir3' = WriteFile(artdir3,
                                      TocPageRange(page_start, npages), tocpdf2)
                     /\ pc' = "generate_toc"
                     /\ failedAt' = failedAt
                ELSE Abort /\ UNCHANGED artdir3
    /\ UNCHANGED <<items, publication_id, finalFile, issue, log, cur,
                   captchas, downloaded_pages, outcome, artdir1, artdir2,
                   pagesdir, extracted, mergeCmd, outputPdf, bookmarks>>

\* the name generate_toc gives the generated TOC: "2-3"
GeneratedTocName == <<ZeroCh + 2, Hyphen, ZeroCh + 3>>

\* the numbers of pages pandoc may render the generated TOC on
GeneratedTocLens == {1, 2}

\* generate_toc(issue, tocdir, artdir3)
GenerateToc ==
    /\ UNCHANGED <<sleeping, args, existing>>
    /\ UNCHANGED <<run, atStart>>
    /\ pc = "generate_toc"
    /\ IF issue.toc
       THEN UNCHANGED <<tocdir, artdir3>>
       ELSE \E n \in GeneratedTocLens :
              /\ tocdir' = WriteFile(tocdir, "toc.md", <<>>)
              /\ artdir3' = WriteFile(artdir3, GeneratedTocName,
                                [i \in 1..n |-> GeneratedTocPage(i)])
    /\ pc' = "explode"
    /\ UNCHANGED <<failedAt, items, publication_id, finalFile, issue, log,
                   cur, captchas, downloaded_pages, outcome, artdir1,
                   artdir2, pagesdir, extracted, mergeCmd, outputPdf,
                   bookmarks>>

(***************************************************************************)
(* natsorted                                                               *)
(***************************************************************************)
\* the length of the longest prefix of s whose characters are all digits
\* (digits = TRUE) or all non-digits
RECURSIVE RunLen(_, _)
RunLen(s, digits) ==
    IF Len(s) = 0 \/ IsDigit(s[1]) # digits THEN 0
    ELSE 1 + RunLen(Tail(s), digits)

\* natsort's key of a string: its runs of digits, as numbers, and the text
\* between them
RECURSIVE NatChunks(_)
NatChunks(s) ==
    IF Len(s) = 0 THEN <<>>
    ELSE LET d == IsDigit(s[1])
             k == RunLen(s, d)
             chunk == SubSeq(s, 1, k)
         IN  <<[num |-> d,
                n   |-> IF d THEN IntVal(chunk) ELSE 0,
                txt |-> IF d THEN <<>> ELSE chunk]>>
             \o NatChunks(SubSeq(s, k + 1, Len(s)))

RECURSIVE ChunksLess(_, _)
ChunksLess(a, b) ==
    IF Len(b) = 0 THEN FALSE
    ELSE IF Len(a) = 0 THEN TRUE
    ELSE IF a[1] = b[1] THEN ChunksLess(Tail(a), Tail(b))
    ELSE IF a[1].num /\ b[1].num THEN a[1].n < b[1].n
    ELSE IF ~a[1].num /\ ~b[1].num THEN LexLess(a[1].txt, b[1].txt)
    ELSE a[1].num

\* the order natsorted puts two files of one directory in: all names start
\* with "pages_" and end with ".pdf", which the Dot stands for
NatLess(a, b) ==
    ChunksLess(NatChunks(a \o <<Dot>>), NatChunks(b \o <<Dot>>))

\* a sort that puts the files in the opposite order
RECURSIVE natsorted_reversed(_)
natsorted_reversed(S) ==
    IF S = {} THEN <<>>
    ELSE LET m == CHOOSE x \in S : \A y \in S \ {x} : NatLess(y, x)
         IN  <<m>> \o natsorted_reversed(S \ {m})

\* natsorted(dir.iterdir())
RECURSIVE natsorted(_)
natsorted(S) ==
    IF S = {} THEN <<>>
    ELSE LET m == CHOOSE x \in S : \A y \in S \ {x} : NatLess(x, y)
         IN  <<m>> \o natsorted(S \ {m})

(***************************************************************************)
(* explode, gap-fill                                                       *)
(***************************************************************************)
get_pages_from_file(pagesfn) == Split(pagesfn, Comma)

\* the pages of a file in the order the explode stage assigns them to the
\* physical pages: sorted(get_pages_from_file(pagesfn)), a sort of strings
ExplodeOrder(pagesfn) == SortedStrs(get_pages_from_file(pagesfn))

Extraction(from, page, to) == [from |-> from, page |-> page, to |-> to]

\* the inner loop from the i-th page on: qpdf --empty --pages pagesfn i --
\* pages_<this_page>.pdf; qpdf fails when the file has no page i
RECURSIVE ExtractPages(_, _, _, _, _)
ExtractPages(pagesfn, pdf, pages, i, st) ==
    IF i > Len(pages) \/ ~st.ok THEN st
    ELSE IF i > Len(pdf) THEN [st EXCEPT !.ok = FALSE]
    ELSE ExtractPages(pagesfn, pdf, pages, i + 1,
           [ok  |-> TRUE,
            dir |-> WriteFile(st.dir, pages[i], <<pdf[i]>>),
            log |-> Append(st.log, Extraction(pagesfn, i, pages[i]))])

RECURSIVE ExplodeFiles(_, _, _)
ExplodeFiles(pagesfns, indir, st) ==
    IF Len(pagesfns) = 0 \/ ~st.ok THEN st
    ELSE ExplodeFiles(Tail(pagesfns), indir,
           ExtractPages(pagesfns[1], indir[pagesfns[1]],
                        ExplodeOrder(pagesfns[1]), 1, st))

extract_single_pages_from_pdfs(indir, outdir) ==
    ExplodeFiles(natsorted(Names(indir)), indir,
                 [ok |-> TRUE, dir |-> outdir, log |-> <<>>])

ExtractSinglePages ==
    /\ UNCHANGED <<sleeping, args, existing>>
    /\ pc = "explode"
    /\ LET r == extract_single_pages_from_pdfs(artdir3, pagesdir)
       IN  /\ pagesdir' = r.dir
           /\ extracted' = extracted \o r.log
           /\ IF r.ok THEN pc' = "gapfill" /\ failedAt' = failedAt
              ELSE Abort
    /\ UNCHANGED <<items, publication_id, finalFile, issue, log, fetchVars,
                   artdir2, artdir3, mergeCmd, outputPdf, bookmarks>>

\* the page strings of the files of a directory
PageStrings(dir) ==
    UNION {Range(get_pages_from_file(n)) : n \in Names(dir)}

\* a gap-filler whose range starts at 2
MissingPagesFromTwo(pages_we_have) ==
    {i \in 2..Max(pages_we_have) : i \notin pages_we_have}

\* the pages the gap-filler writes a blank for
MissingPages(pages_we_have) ==
    {i \in 1..Max(pages_we_have) : i \notin pages_we_have}

\* a gap-filler that leaves alone the page files the directory holds
insert_white_pages_where_absent(indir, outdir) ==
    IF PageStrings(indir) = {} \/ \E x \in PageStrings(indir) : ~IsInt(x)
    THEN [ok |-> FALSE, dir |-> outdir]
    ELSE LET pages_we_have == {IntVal(x) : x \in PageStrings(indir)}
             absent == {i \in MissingPages(pages_we_have) :
                           Digits(i) \notin Names(outdir)}
         IN  [ok  |-> TRUE,
              dir |-> [n \in Names(outdir) \cup {Digits(i) : i \in absent} |->
                         IF n \in Names(outdir) THEN outdir[n]
                         ELSE <<BlankPage>>]]

\* a gap-filler that takes a directory without files for an issue without
\* pages and writes nothing
insert_white_pages_if_any(indir, outdir) ==
    IF PageStrings(indir) = {} THEN [ok |-> TRUE, dir |-> outdir]
    ELSE IF \E x \in PageStrings(indir) : ~IsInt(x)
    THEN [ok |-> FALSE, dir |-> outdir]
    ELSE LET pages_we_have == {IntVal(x) : x \in PageStrings(indir)}
             missing == MissingPages(pages_we_have)
         IN  [ok  |-> TRUE,
              dir |-> [n \in Names(outdir) \cup {Digits(i) : i \in missing} |->
                         IF \E i \in missing : n = Digits(i)
                         THEN <<BlankPage>> ELSE outdir[n]]]

\* insert_white_pages_in_issue(indir, outdir, whitepdffp): int() of a page
\* string that is no number, and max() of no pages, raise ValueError before
\* the first copy
insert_white_pages_in_issue(indir, outdir) ==
    IF PageStrings(indir) = {} \/ \E x \in PageStrings(indir) : ~IsInt(x)
    THEN [ok |-> FALSE, dir |-> outdir]
    ELSE LET pages_we_have == {IntVal(x) : x \in PageStrings(indir)}
             missing == MissingPages(pages_we_have)
         IN  [ok  |-> TRUE,
              dir |-> [n \in Names(outdir) \cup {Digits(i) : i \in missing} |->
                         IF \E i \in missing : n = Digits(i)
                         THEN <<BlankPage>> ELSE outdir[n]]]

InsertWhitePages ==
    /\ UNCHANGED <<sleeping, args, existing>>
    /\ pc = "gapfill"
    /\ LET r == insert_white_pages_in_issue(artdir3, pagesdir)
       IN  /\ pagesdir' = r.dir
           /\ IF r.ok THEN pc' = "cover" /\ failedAt' = failedAt
              ELSE Abort
    /\ UNCHANGED <<items, publication_id, finalFile, issue, log, fetchVars,
                   artdir2, artdir3, extracted, mergeCmd, outputPdf,
                   bookmarks>>

(***************************************************************************)
(* The assembler                                                           *)
(***************************************************************************)
PageOne == Digits(1)

\* "Download cover" to the writing of pages_1.pdf.  journal_cover_url is
\* assigned in main, for The Economist only, which makes it a local name of
\* main: for another publication the test "if journal_cover_url" reads an
\* unassigned local and raises UnboundLocalError.
MakeCover ==
    /\ UNCHANGED <<sleeping, args, existing>>
    /\ pc = "cover"
    /\ IF publication_id = Economist
       THEN /\ log' = Append(log, Event("fetch_cover", PublicationUrl))
            /\ pagesdir' = WriteFile(DeleteFile(pagesdir, PageOne), PageOne,
                                     <<CoverPage>>)
            /\ pc' = "merge"
            /\ failedAt' = failedAt
       ELSE /\ Abort
            /\ UNCHANGED <<log, pagesdir>>
    /\ UNCHANGED <<items, publication_id, finalFile, issue, fetchVars,
                   artdir2, artdir3, extracted, mergeCmd, outputPdf,
                   bookmarks>>

\* a merge in the order of sorted(), the order of the names as strings
MergeOrderOfStrings(dir) == SortedStrs(natsorted(Names(dir)))

\* the order merge_pdf hands the files of indir to qpdf
MergeOrder(dir) == natsorted(Names(dir))

\* a merge made of the directory as it is without the cover
merge_pdf_without_cover(dir) ==
    LET rest == DeleteFile(dir, PageOne)
    IN  Flatten([i \in 1..Len(MergeOrder(rest)) |-> rest[MergeOrder(rest)[i]]])

\* merge_pdf(pagesdir, outfp): qpdf --empty --pages <files> -- outfp
merge_pdf(dir) == Flatten([i \in 1..Len(MergeOrder(dir)) |->
                              dir[MergeOrder(dir)[i]]])

MergePdf ==
    /\ UNCHANGED <<sleeping, args, existing>>
    /\ pc = "merge"
    /\ mergeCmd' = MergeOrder(pagesdir)
    /\ outputPdf' = File(merge_pdf(pagesdir))
    /\ pc' = "bookmarks"
    /\ UNCHANGED <<failedAt, items, publication_id, finalFile, issue, log,
                   fetchVars, artdir2, artdir3, pagesdir, extracted,
                   bookmarks>>

Bookmark(title, page) == [title |-> title, page |-> page]

\* an insert_bookmarks that leaves out the table of contents
BookmarkedUnlessToc(article) == ~article.is_toc

\* whether insert_bookmarks writes a line for the article
Bookmarked(article) == Len(article.pages) > 0

\* the lines insert_bookmarks writes to bookmark.txt
RECURSIVE BookmarkLines(_)
BookmarkLines(articles) ==
    IF Len(articles) = 0 THEN <<>>
    ELSE (IF Bookmarked(articles[1])
          THEN <<Bookmark(articles[1].title, articles[1].pages[1])>>
          ELSE <<>>)
         \o BookmarkLines(Tail(articles))

\* insert_bookmarks(downloaddir, issue, infp, outfp)
InsertBookmarks ==
    /\ UNCHANGED <<sleeping, args, existing>>
    /\ pc = "bookmarks"
    /\ bookmarks' = BookmarkLines(issue.articles)
    /\ pc' = "compress"
    /\ UNCHANGED <<failedAt, items, publication_id, finalFile, issue, log,
                   fetchVars, artdir2, artdir3, pagesdir, extracted,
                   mergeCmd, outputPdf>>

\* ps2pdf -dPDFSETTINGS=/ebook: the same pages, compressed
Compress ==
    /\ UNCHANGED <<sleeping, args, existing>>
    /\ pc = "compress"
    /\ pc' = "move"
    /\ UNCHANGED <<failedAt, items, publication_id, finalFile, issue, log,
                   fetchVars, stageVars>>

(***************************************************************************)
(* External tools.  Every subprocess.run of main and of its stages is      *)
(* followed by an assertion on the return code.                            *)
(***************************************************************************)
\* the stages that run an external tool, and what failedAt says when the
\* tool fails there
ToolAt ==
    [strip_last   |-> "qpdf of remove_last_page",
     strip_crop   |-> "qpdf or sed of remove_crop_box",
     rename_toc   |-> "qpdf of economist_rename_toc",
     generate_toc |-> "pandoc",
     explode      |-> "qpdf of extract_single_pages_from_pdfs",
     cover        |-> "magick",
     merge        |-> "qpdf of merge_pdf",
     compress     |-> "ps2pdf"]

ToolFailures == {ToolAt[p] : p \in DOMAIN ToolAt}

\* whether the stage at position p runs its tool at all
ToolRuns(p) ==
    CASE p = "strip_last"   -> Names(artdir1) # {}
      [] p = "strip_crop"   -> Names(artdir2) # {}
      [] p = "rename_toc"   -> publication_id = Economist /\ issue.toc
                                  /\ TocFile \in Names(tocdir)
      [] p = "generate_toc" -> ~issue.toc
      [] p = "explode"      -> Names(artdir3) # {}
      [] p = "cover"        -> publication_id = Economist
      [] OTHER              -> TRUE

\* the exit codes of a tool that has not succeeded (qpdf: 2 for an error,
\* 3 for warnings)
FailureCodes == {1, 2, 3}

\* a caller that does not look at the return code
AnyReturnCode(rc) == TRUE

\* assert ret.returncode == 0
ReturnCodeAccepted(rc) == rc = 0

\* the first tool invocation of the stage exits with a failure code.  The
\* stage has by then done what precedes the invocation: generate_toc has
\* written toc.md, the cover step has fetched the image and has deleted
\* pages_1.pdf.
ToolFails ==
    /\ UNCHANGED <<sleeping, args, existing>>
    /\ pc \in DOMAIN ToolAt
    /\ ToolRuns(pc)
    /\ \E rc \in FailureCodes :
          pc' = IF ReturnCodeAccepted(rc) THEN pc ELSE "aborted"
    /\ failedAt' = ToolAt[pc]
    /\ tocdir' = IF pc = "generate_toc" THEN WriteFile(tocdir, "toc.md", <<>>)
                 ELSE tocdir
    /\ pagesdir' = IF pc = "cover" THEN DeleteFile(pagesdir, PageOne)
                   ELSE pagesdir
    /\ log' = IF pc = "cover"
              THEN Append(log, Event("fetch_cover", PublicationUrl))
              ELSE log
    /\ UNCHANGED <<items, publication_id, finalFile, issue, cur, captchas,
                   downloaded_pages, outcome, artdir1, run, atStart,
                   artdir2, artdir3, extracted, mergeCmd, outputPdf,
                   bookmarks>>

\* Between the check of the output path and the move, main does not look
\* at the path again: another program (a second run on the same issue, the
\* user) may put a file there; what is there when the move is made is all
\* that matters to the run.
OutputAppears ==
    /\ UNCHANGED <<sleeping, args, existing>>
    /\ pc = "move"
    /\ ~finalFile.present
    /\ finalFile' = File(<<OtherPage>>)
    /\ UNCHANGED <<pc, failedAt, items, publication_id, issue, log>>
    /\ UNCHANGED <<fetchVars, stageVars>>

\* the file at dst after shutil.move(src, dst), dst no directory:
\* os.rename, which replaces a file at dst
shutil_move(src, dst) == src

\* shutil.move(outfp, pdf_fp); shutil.rmtree(args.tmpdir)
MoveToFinal ==
    /\ UNCHANGED <<sleeping, args>>
    /\ existing' = {}
    /\ UNCHANGED <<run, atStart>>
    /\ pc = "move"
    /\ finalFile' = shutil_move(outputPdf, finalFile)
    /\ outputPdf' = Absent
    /\ artdir1' = EmptyDir
    /\ artdir2' = EmptyDir
    /\ artdir3' = EmptyDir
    /\ pagesdir' = EmptyDir
    /\ tocdir' = EmptyDir
    /\ pc' = "done"
    /\ UNCHANGED <<failedAt, items, publication_id, issue, log, cur,
                   captchas, downloaded_pages, outcome, extracted, mergeCmd,
                   bookmarks>>

Next == 
    \/ Connect
    \/ ReadIssue
    \/ CheckOutput
    \/ RetrieveArticlesList
    \/ DownloadArticle
    \/ Navigate
    \/ NavigateCaptcha
    \/ OperatorInput
    \/ ResolveTimeout
    \/ FetchPdf
    \/ Wake
    \/ CloseBrowser
    \/ StripLastPage
    \/ StripCropBox
    \/ EconomistRenameToc
    \/ GenerateToc
    \/ ExtractSinglePages
    \/ InsertWhitePages
    \/ MakeCover
    \/ MergePdf
    \/ InsertBookmarks
    \/ Compress
    \/ ToolFails
    \/ OutputAppears
    \/ MoveToFinal

Spec == Init /\ [][Next]_vars

(***************************************************************************)
(* The page-range parser on its own: retrieve_articles_list on one result  *)
(* entry, its citation any comma-joined combination of parts.              *)
(***************************************************************************)
ParseLocs == {Loc(ps) : ps \in UNION {[1..n -> Parts] : n \in 1..MaxParts}}

\* citations with a colon and no page list after it: " .", " 1-.", " 1,."
\* and " p1."
MalformedTexts ==
    {<<Space, Dot>>,
     <<Space, ZeroCh + 1, Hyphen, Dot>>,
     <<Space, ZeroCh + 1, Comma, Dot>>,
     <<Space, LetterP, ZeroCh + 1, Dot>>}

MalformedLocs == {[colon |-> TRUE, text |-> t, parts |-> <<>>] :
                     t \in MalformedTexts}

ParseItemSet ==
    [title : Titles, loc : ParseLocs \cup MalformedLocs \cup {NoPagesLoc},
     haspdf : BOOLEAN]

InitParse ==
    \E it \in ParseItemSet :
        InitRun("retrieve", <<it>>, Economist, Absent, NewIssue)

SpecParse == InitParse /\ [][RetrieveArticlesList]_vars

(***************************************************************************)
(* The fetcher on its own: download_articles over an article list, and     *)
(* the run started again with --continue-download over the same list after *)
(* the fetcher has ended or aborted.                                       *)
(***************************************************************************)
\* highest number of runs over one working directory
MaxRuns == 2

FetchItemSet ==
    {Item("A", l, TRUE) : l \in PartLocs \cup PairLocs}
        \cup {Item(TocTitle, NoPagesLoc, TRUE)}

FetchItemLists == UNION {[1..n -> FetchItemSet] : n \in 1..MaxItems}

InitFetch ==
    \E its \in FetchItemLists :
        LET r == retrieve_articles_list(its)
        IN  InitRun("download", its, Economist, Absent,
                    [toc |-> r.toc, articles |-> r.articles])

FetcherEnded ==
    \/ pc = "aborted"
    \/ pc = "download" /\ cur > Len(issue.articles)

\* main started again with --continue-download: the directories keep their
\* files, the new scraper starts with no downloaded pages, and the same
\* article list is retrieved
Rerun ==
    /\ UNCHANGED <<sleeping, existing>>
    /\ args' = [args EXCEPT !.continue_download = TRUE]
    /\ FetcherEnded
    /\ run < MaxRuns
    /\ run' = run + 1
    /\ atStart' = Found(artdir1, artdir2, artdir3, pagesdir, tocdir)
    /\ pc' = "download"
    /\ failedAt' = "none"
    /\ cur' = 1
    /\ downloaded_pages' = {}
    /\ outcome' = [a \in 1..Len(issue.articles) |-> "pending"]
    /\ log' = <<>>
    /\ UNCHANGED <<items, publication_id, finalFile, issue, captchas,
                   artdir1, tocdir>>
    /\ UNCHANGED stageVars

NextFetch ==
    \/ DownloadArticle
    \/ Navigate
    \/ NavigateCaptcha
    \/ OperatorInput
    \/ ResolveTimeout
    \/ FetchPdf
    \/ Wake
    \/ Rerun

SpecFetch == InitFetch /\ [][NextFetch]_vars


(***************************************************************************)
(* main killed and started again with --continue-download on the same      *)
(* working directory: the directories keep their files, everything the     *)
(* process held in memory is gone.                                         *)
(***************************************************************************)
\* the process is killed between two steps of main
Kill ==
    /\ pc \notin {"done", "aborted"}
    /\ run < MaxRuns
    /\ pc' = "aborted"
    /\ failedAt' = "killed"
    /\ UNCHANGED <<items, publication_id, finalFile, issue, log>>
    /\ UNCHANGED <<fetchVars, stageVars>>
    /\ sleeping' = 0
    /\ UNCHANGED <<args, existing>>

\* the file open(pdffn, "wb") has created and fh.write(data) has not yet
\* filled: no page of the PDF can be read from it
Truncated == <<>>

\* the process is killed in download_article after requests.get has
\* returned and open(pdffn, "wb") has created the file, before fh.write
\* has written the data
KillInWrite ==
    /\ UNCHANGED <<sleeping, args, existing>>
    /\ pc = "resolve"
    /\ run < MaxRuns
    /\ LET article == issue.articles[cur]
       IN  /\ IF article.is_toc
              THEN /\ tocdir' = WriteFile(tocdir, TocFile, Truncated)
                   /\ UNCHANGED artdir1
              ELSE /\ artdir1' = WriteFile(artdir1, pages_str(article),
                                           Truncated)
                   /\ UNCHANGED tocdir
           /\ log' = Append(log, Event("fetch", article.pdfurl))
    /\ pc' = "aborted"
    /\ failedAt' = "killed"
    /\ UNCHANGED <<items, publication_id, finalFile, issue, cur, captchas,
                   downloaded_pages, outcome, run, atStart>>
    /\ UNCHANGED stageVars

\* main from the top, with --continue-download, after a run that ended
\* without removing the working directory
Restart ==
    /\ UNCHANGED <<sleeping, existing>>
    /\ args' = [args EXCEPT !.continue_download = TRUE]
    /\ pc = "aborted"
    /\ run < MaxRuns
    /\ run' = run + 1
    /\ atStart' = Found(artdir1, artdir2, artdir3, pagesdir, tocdir)
    /\ pc' = "connect"
    /\ failedAt' = "none"
    /\ issue' = NewIssue
    /\ cur' = 1
    /\ downloaded_pages' = {}
    /\ outcome' = <<>>
    /\ log' = <<>>
    /\ extracted' = <<>>
    /\ mergeCmd' = <<>>
    /\ UNCHANGED <<items, publication_id, finalFile, captchas, artdir1,
                   artdir2, artdir3, pagesdir, tocdir, outputPdf, bookmarks>>

\* the issues of the restarted runs: articles cited by one page, and a
\* table of contents without pages
RestartItemSet ==
    {Item("A", Loc(<<p>>), TRUE) : p \in {q \in Parts : q.hi = 0}}
        \cup {Item(TocTitle, NoPagesLoc, TRUE)}

RestartItemLists == UNION {[1..n -> RestartItemSet] : n \in 1..MaxItems}

InitRestart ==
    \E its \in RestartItemLists :
        InitRun("connect", its, Economist, Absent, NewIssue)

NextRestart ==
    \/ Next
    \/ Kill
    \/ KillInWrite
    \/ Restart

SpecRestart == InitRestart /\ [][NextRestart]_vars

(***************************************************************************)
(* The fetcher killed between two of its steps and started again with      *)
(* --continue-download over the same article list.                         *)
(***************************************************************************)
NextKilledFetch ==
    \/ NextFetch
    \/ Kill

SpecKilledFetch == InitFetch /\ [][NextKilledFetch]_vars

(***************************************************************************)
(* The start of main: the check of args.tmpdir and the working paths       *)
(***************************************************************************)
\* what --tmpdir can hold: the default, a name the user gives, the empty
\* string
TmpdirArgs == {DefaultTmpdir, "tmp", ""}

\* what can be on disk under args.tmpdir when main starts: nothing, the
\* directory alone, or download with some of its five directories
DiskStates ==
    {{}, {"tmpdir"}} \cup
        {{"tmpdir", "download"} \cup S : S \in SUBSET SubDirs}

\* the files a former run can have left in 1_articles
LeftFiles == {EmptyDir, Digits(1) :> PdfOfPages(1, {1})}

\* bool(s) of a str
Truthy(s) == s # ""

\* the message of the Exception raised on args.tmpdir
TmpdirExistsError ==
    "Error: temporary directory already exists. Did you forget --continue?"

\* args.tmpdir / "download" with args.tmpdir a str
TypeError == "TypeError: unsupported operand type(s) for /: 'str' and 'str'"

InitStart ==
    \E t \in TmpdirArgs, c \in BOOLEAN, d \in DiskStates, a \in LeftFiles :
        /\ t = "" => d = {}
        /\ pc = "directories"
        /\ failedAt = "none"
        /\ items = <<>>
        /\ publication_id = Economist
        /\ finalFile = Absent
        /\ issue = NewIssue
        /\ cur = 1
        /\ captchas = 0
        /\ downloaded_pages = {}
        /\ outcome = <<>>
        /\ log = <<>>
        /\ artdir1 = IF "1_articles" \in d THEN a ELSE EmptyDir
        /\ artdir2 = EmptyDir
        /\ artdir3 = EmptyDir
        /\ pagesdir = EmptyDir
        /\ tocdir = EmptyDir
        /\ extracted = <<>>
        /\ mergeCmd = <<>>
        /\ outputPdf = Absent
        /\ bookmarks = <<>>
        /\ run = 1
        /\ atStart = Found(artdir1, EmptyDir, EmptyDir, EmptyDir, EmptyDir)
        /\ sleeping = 0
        /\ args = [tmpdir |-> t, continue_download |-> c]
        /\ existing = d

\* if args.tmpdir: raise Exception("Error: temporary directory already
\* exists. Did you forget --continue?").  The test is on the string, not on
\* the disk, and args.continue_download is not read.
CheckTmpdir ==
    /\ pc = "directories"
    /\ IF Truthy(args.tmpdir)
       THEN pc' = "aborted" /\ failedAt' = TmpdirExistsError
       ELSE pc' = "paths" /\ failedAt' = failedAt
    /\ UNCHANGED <<items, publication_id, finalFile, issue, log, sleeping,
                   args, existing>>
    /\ UNCHANGED <<fetchVars, stageVars>>

\* downloaddir = args.tmpdir / "download": args.tmpdir is the str argparse
\* stored, nothing has made a Path of it, and str has no / operator
BuildPaths ==
    /\ pc = "paths"
    /\ pc' = "aborted"
    /\ failedAt' = TypeError
    /\ UNCHANGED <<items, publication_id, finalFile, issue, log, sleeping,
                   args, existing>>
    /\ UNCHANGED <<fetchVars, stageVars>>

NextStart == CheckTmpdir \/ BuildPaths

SpecStart == InitStart /\ [][NextStart]_vars

(***************************************************************************)
(* One run of download_articles with its steps taken, over issues whose    *)
(* articles are cited by one page.                                         *)
(***************************************************************************)
\* the fetcher with its steps taken: the browser returns from every get,
\* every sleep ends,
\* the wait for the embedded PDF ends with the element or with the timeout
\* of 30 seconds, and an operator is there to answer input()
FairFetch ==
    /\ WF_vars(DownloadArticle)
    /\ WF_vars(Navigate \/ NavigateCaptcha)
    /\ WF_vars(OperatorInput)
    /\ WF_vars(FetchPdf \/ ResolveTimeout)
    /\ WF_vars(Wake)

\* one run of download_articles
NextCaptcha ==
    \/ DownloadArticle
    \/ Navigate
    \/ NavigateCaptcha
    \/ OperatorInput
    \/ ResolveTimeout
    \/ FetchPdf
    \/ Wake

InitCaptcha ==
    \E its \in RestartItemLists :
        LET r == retrieve_articles_list(its)
        IN  InitRun("download", its, Economist, Absent,
                    [toc |-> r.toc, articles |-> r.articles])

SpecCaptcha == InitCaptcha /\ [][NextCaptcha]_vars /\ FairFetch

(***************************************************************************)
(* economist_rename_toc on its own: main at the call, after an issue of a  *)
(* table of contents and one article has been fetched and stripped; the    *)
(* TOC's PDF starts at any page from 0 to one past the highest the code    *)
(* accepts, and has any length from 0 to one past the highest.             *)
(***************************************************************************)
TocIssueItems ==
    <<Item(TocTitle, NoPagesLoc, TRUE),
      Item("A", Loc(<<[lo |-> MaxPage, hi |-> 0]>>), TRUE)>>

\* the log of a run that has fetched the two entries
TocIssueLog ==
    <<Event("get", PublicationUrl),
      Event("get", 1), Event("fetch", 1), Event("sleep", 1),
      Event("get", 2), Event("fetch", 2), Event("sleep", 2)>>

InitToc ==
    \E s \in 0..(MaxTocStart + 1), n \in 0..(MaxTocLen + 1),
       pub \in {Economist, TechReview} :
        LET r == retrieve_articles_list(TocIssueItems)
            a == PdfOfPages(2, {MaxPage})
        IN  /\ pc = "rename_toc"
            /\ failedAt = "none"
            /\ items = TocIssueItems
            /\ publication_id = pub
            /\ finalFile = Absent
            /\ issue = [toc |-> r.toc, articles |-> r.articles]
            /\ cur = 3
            /\ captchas = 0
            /\ downloaded_pages = {TocMark, MaxPage}
            /\ outcome = <<"fetched", "fetched">>
            /\ log = TocIssueLog
            /\ tocdir = (TocFile :> PdfOfPages(1, s..(s + n - 1)))
            /\ artdir1 = (Digits(MaxPage) :> a)
            /\ artdir2 = (Digits(MaxPage) :> remove_last_page(a).pages)
            /\ artdir3 = (Digits(MaxPage) :>
                             remove_crop_box(remove_last_page(a).pages))
            /\ pagesdir = EmptyDir
            /\ extracted = <<>>
            /\ mergeCmd = <<>>
            /\ outputPdf = Absent
            /\ bookmarks = <<>>
            /\ run = 1
            /\ atStart = Found(EmptyDir, EmptyDir, EmptyDir, EmptyDir,
                               EmptyDir)
            /\ sleeping = 0
            /\ args = RunArgs
            /\ existing = mkdirs({})

SpecToc == InitToc /\ [][EconomistRenameToc]_vars

(***************************************************************************)
(* insert_white_pages_in_issue on its own, and what main does after it:    *)
(* the function is given any directory of a few article files, the empty   *)
(* directory among them, and the single pages exploded from it.            *)
(***************************************************************************)
GapFillNames ==
    {Digits(1), Digits(2), Digits(MaxPage),
     Join(<<Digits(2), Digits(MaxPage)>>, Comma), GeneratedTocName}

\* a directory of files of these names, each with one page for every page
\* its name lists
GapFillDir(S) ==
    [n \in S |-> [i \in 1..Len(get_pages_from_file(n)) |->
                     [ArticlePage(1, i) EXCEPT !.crop = FALSE]]]

InitGapFill ==
    \E S \in SUBSET GapFillNames, pub \in Publications :
        LET r == extract_single_pages_from_pdfs(GapFillDir(S), EmptyDir)
        IN  /\ pc = "gapfill"
            /\ failedAt = "none"
            /\ items = <<>>
            /\ publication_id = pub
            /\ finalFile = Absent
            /\ issue = NewIssue
            /\ cur = 1
            /\ captchas = 0
            /\ downloaded_pages = {}
            /\ outcome = <<>>
            /\ log = <<>>
            /\ tocdir = EmptyDir
            /\ artdir1 = EmptyDir
            /\ artdir2 = EmptyDir
            /\ artdir3 = GapFillDir(S)
            /\ pagesdir = r.dir
            /\ extracted = r.log
            /\ mergeCmd = <<>>
            /\ outputPdf = Absent
            /\ bookmarks = <<>>
            /\ run = 1
            /\ atStart = Found(EmptyDir, EmptyDir, EmptyDir, EmptyDir,
                               EmptyDir)
            /\ sleeping = 0
            /\ args = RunArgs
            /\ existing = mkdirs({})

NextGapFill ==
    \/ InsertWhitePages
    \/ MakeCover
    \/ MergePdf
    \/ InsertBookmarks
    \/ Compress
    \/ MoveToFinal

SpecGapFill == InitGapFill /\ [][NextGapFill]_vars

(***************************************************************************)
(* Claims about a run of main                                              *)
(***************************************************************************)
\* the positions of main after insert_white_pages_in_issue has returned
\* and before the working directory is removed
AfterGapFill ==
    \/ pc \in {"cover", "merge", "bookmarks", "compress", "move"}
    \/ pc = "aborted" /\ failedAt = "cover"

\* the page numbers the names of the article files give
KnownPages == {IntVal(x) : x \in {y \in PageStrings(artdir3) : IsInt(y)}}

PageFiles(M) == {Digits(i) : i \in 1..M}

\* C1: in every completed run in which the highest page number named by an
\* article file is M, the merged document has exactly M pages, and the page
\* at position i is the one for printed page i: the cover at 1, the
\* downloaded article or TOC page showing printed page i where there is
\* one, a blank filler everywhere else.
PageDownloaded(i) ==
    \E n \in Names(artdir3) : \E k \in 1..Len(artdir3[n]) :
        artdir3[n][k].kind = "page" /\ artdir3[n][k].pp = i

RightPageAt(i, page) ==
    IF i = 1 THEN page.kind = "cover"
    ELSE IF PageDownloaded(i) THEN page.kind = "page" /\ page.pp = i
    ELSE page.kind = "blank"

C1_MergedDocumentMatchesIssue ==
    pc = "move" =>
        /\ Len(outputPdf.pages) = Max(KnownPages)
        /\ \A i \in 1..Len(outputPdf.pages) : RightPageAt(i, outputPdf.pages[i])

\* C3: after insert_white_pages_in_issue, with M the highest known page
\* number, the single-page directory holds exactly the files pages_1.pdf
\* to pages_M.pdf.
C3_GapFillGivesOneFilePerPage ==
    AfterGapFill =>
        /\ KnownPages # {}
        /\ Names(pagesdir) = PageFiles(Max(KnownPages))

C3_Witness ==
    /\ pc = "cover"
    /\ Max(KnownPages) >= 3
    /\ \E n \in Names(pagesdir) : pagesdir[n] = <<BlankPage>>
    /\ \E n \in Names(pagesdir) : pagesdir[n] # <<BlankPage>>

\* C4: the explode stage is a bijection between the (source file, physical
\* page index) pairs of the article directory and the page files written:
\* every pair is extracted, no two pairs go to the same page file, and every
\* page file comes from exactly one pair.
SourcePairs ==
    UNION {{<<n, k>> : k \in 1..Len(artdir3[n])} : n \in Names(artdir3)}

PairsWrittenTo(f) ==
    {<<extracted[j].from, extracted[j].page>> :
        j \in {x \in 1..Len(extracted) : extracted[x].to = f}}

C4_ExplodeIsBijection ==
    pc = "gapfill" =>
        /\ \A p \in SourcePairs : \E f \in Names(pagesdir) : p \in PairsWrittenTo(f)
        /\ \A f \in Names(pagesdir) : Cardinality(PairsWrittenTo(f)) = 1
        /\ Len(extracted) = Cardinality(SourcePairs)

\* C7 as stated: when the output file already exists, the run aborts before
\* any network call, navigation of the browser included.
OutputExisted == finalFile = File(<<PriorPage>>)

C7_AbortsBeforeAnyNetworkCall == OutputExisted => log = <<>>

\* C7, amended: when the output file already exists, the run aborts at the
\* check of the output path, before the article list is retrieved and
\* before any article page, article PDF or cover is requested; the browser
\* has by then opened the publication page only, from which the
\* publication name and the issue date of the path are read.
C7_AbortsBeforeArticlesAreRetrieved ==
    OutputExisted =>
        /\ pc \in {"connect", "read_issue", "check_output", "aborted"}
        /\ pc = "aborted" => failedAt \in {"read_issue", "check_output"}
        /\ issue.articles = <<>>
        /\ \A j \in 1..Len(log) :
              log[j].url = PublicationUrl /\ log[j].op \in {"get", "refresh"}

C7_Witness ==
    OutputExisted /\ pc = "aborted" /\ failedAt = "check_output"

\* C8: merge_pdf concatenates the single-page files in ascending numeric
\* order of the page number in the file name: of two page files pages_a.pdf
\* and pages_b.pdf with a < b the page of the first precedes the page of the
\* second in the merged document.
AfterMerge == pc \in {"bookmarks", "compress", "move"}

C8_MergeInNumericOrder ==
    AfterMerge =>
        /\ Range(mergeCmd) = Names(pagesdir)
        /\ \A i, j \in 1..Len(mergeCmd) :
              IntVal(mergeCmd[i]) < IntVal(mergeCmd[j]) => i < j
        /\ \A i \in 1..Len(mergeCmd) :
              outputPdf.pages[i] = pagesdir[mergeCmd[i]][1]

\* pages 2 and 10 are merged: as strings "10" < "2"
C8_Witness ==
    /\ pc = "bookmarks"
    /\ Digits(2) \in Names(pagesdir)
    /\ Digits(10) \in Names(pagesdir)

\* C9 as stated: one bookmark per article with a non-empty title, in the
\* order of the article list, anchored at the article's first page.
Titled(article) == article.title # ""

C9_OneBookmarkPerTitledArticle ==
    pc \in {"compress", "move"} =>
        LET titled == SelectSeq(issue.articles, Titled)
        IN  /\ Len(bookmarks) = Len(titled)
            /\ \A i \in 1..Len(bookmarks) :
                  /\ bookmarks[i].title = titled[i].title
                  /\ Len(titled[i].pages) > 0 =>
                        bookmarks[i].page = titled[i].pages[1]

\* C9, amended: one bookmark per article with a non-empty page list (an
\* article without pages, the table of contents of a citation without page
\* numbers, gets none, whatever its title), in the order of the article
\* list, anchored at the first page number of the article's page list.
HasPages(article) == article.pages # <<>>

C9_OneBookmarkPerArticleWithPages ==
    pc \in {"compress", "move"} =>
        LET paged == SelectSeq(issue.articles, HasPages)
        IN  /\ Len(bookmarks) = Len(paged)
            /\ \A i \in 1..Len(bookmarks) :
                  /\ bookmarks[i].title = paged[i].title
                  /\ bookmarks[i].page = paged[i].pages[1]

\* a table of contents with pages and an article are bookmarked, in order
C9_Witness ==
    /\ pc = "compress"
    /\ Len(bookmarks) = 2
    /\ bookmarks[1].title = TocTitle
    /\ bookmarks[2].title = "A"

\* C10: when no table of contents is supplied, generate_toc places the
\* generated one in the article directory as pages_2-3.pdf, and after the
\* explode stage (and the gap-fill after it) its two pages are the pages 2
\* and 3 of the issue.
TocGenerated ==
    /\ ~issue.toc
    /\ GeneratedTocName \in Names(artdir3)
    /\ Len(artdir3[GeneratedTocName]) = 2

IsGeneratedTocPage(dir, name, n) ==
    name \in Names(dir) /\ dir[name] = <<GeneratedTocPage(n)>>

C2_ParsedPagesAreExpandedRanges ==
    pc = "download" =>
        \A k \in 1..Len(issue.articles) :
            LET loc == items[issue.articles[k].pdfurl].loc
            IN  loc.colon =>
                  issue.articles[k].pages = Ascending(CitedPages(loc))

(***************************************************************************)
(* Claims about the fetcher                                                *)
(***************************************************************************)
ArticleLoc(k) == items[issue.articles[k].pdfurl].loc

\* the pages of the articles download_article was called for before k
PagesBefore(k) == UNION {CitedPages(ArticleLoc(j)) : j \in 1..(k - 1)}

Accesses(k) ==
    {j \in 1..Len(log) : log[j].url = issue.articles[k].pdfurl}

\* the directory held the file of article k when the run started
HadFile(k) ==
    IF issue.articles[k].is_toc THEN TocFile \in Names(atStart.tocdir)
    ELSE pages_str(issue.articles[k]) \in Names(atStart.artdir1)

\* C5: download_article produces the article's file unless the article's
\* pages are all pages of articles processed before it or the file exists
\* already: an article with a page that is in no earlier article's page set,
\* and without a file, is fetched; an article skipped as covered makes no
\* network access.
C5_FetchedUnlessCoveredOrPresent ==
    \A k \in 1..Len(issue.articles) :
        /\ ( /\ outcome[k] # "pending"
             /\ ~issue.articles[k].is_toc
             /\ ~(CitedPages(ArticleLoc(k)) \subseteq PagesBefore(k))
             /\ ~HadFile(k) )
           => outcome[k] = "fetched"
        /\ outcome[k] = "covered" => Accesses(k) = {}

\* C6: a second run of the fetcher over the same article list, in a
\* directory that holds an article's file already, does not navigate to the
\* article, does not fetch its PDF and leaves the file as it is.
FileOf(article, a1, td) ==
    IF article.is_toc THEN td[TocFile] ELSE a1[pages_str(article)]

C6_SecondRunLeavesPresentFilesAlone ==
    run >= 2 =>
        \A k \in 1..Len(issue.articles) :
            HadFile(k) =>
                /\ Accesses(k) = {}
                /\ FileOf(issue.articles[k], artdir1, tocdir)
                     = FileOf(issue.articles[k], atStart.artdir1, atStart.tocdir)

\* the second run has gone through the list and has skipped an article
\* because its file was there
C6_Witness ==
    /\ run = 2
    /\ pc = "download"
    /\ cur > Len(issue.articles)
    /\ \E k \in 1..Len(issue.articles) : outcome[k] = "exists"

(***************************************************************************)
(* Claims about a run started again on the same working directory          *)
(***************************************************************************)
\* the positions of main after remove_last_page_from_articles has returned
AfterStripLast ==
    pc \in {"strip_crop", "rename_toc", "generate_toc", "explode", "gapfill",
            "cover", "merge", "bookmarks", "compress", "move"}

Kept(before, now) ==
    \A n \in Names(before) : n \in Names(now) /\ now[n] = before[n]

C12_MoveFailsIfOccupied ==
    [][(pc = "move" /\ finalFile.present /\ pc' # "move")
          => (pc' = "aborted" /\ finalFile' = finalFile)]_vars

\* C13: when an invocation of an external tool (qpdf, sed, pandoc, magick,
\* ps2pdf) exits with a non-zero status the run aborts at once: the step
\* of the failure ends the run, no step follows it, and no final output
\* file is created.
C13_ToolFailureAbortsRun ==
    [][/\ failedAt' \in ToolFailures =>
            /\ pc' = "aborted"
            /\ finalFile' = finalFile
            /\ ~finalFile'.present
            /\ outputPdf' = outputPdf
       /\ failedAt \notin ToolFailures]_vars

\* ps2pdf has failed: the merged document is there, the final file is not
C13_Witness ==
    /\ failedAt = ToolAt["compress"]
    /\ pc = "aborted"
    /\ outputPdf.present
    /\ ~finalFile.present

(***************************************************************************)
(* Claims about failures of the fetcher                                    *)
(***************************************************************************)
Count(op, url) ==
    Cardinality({j \in 1..Len(log) : log[j].op = op /\ log[j].url = url})

\* the run as the failure to resolve the PDF of the article in turn leaves it
StoppedAtArticle ==
    /\ pc = "aborted"
    /\ ~FileExists(issue.articles[cur], artdir1, tocdir)
    /\ Count("fetch", issue.articles[cur].pdfurl) = 0
    /\ Count("get", issue.articles[cur].pdfurl)
         = Count("input", issue.articles[cur].pdfurl) + 1
    /\ \A k \in (cur + 1)..Len(issue.articles) :
          outcome[k] = "pending" /\ Accesses(k) = {}
    /\ artdir2 = EmptyDir /\ artdir3 = EmptyDir /\ pagesdir = EmptyDir
    /\ ~outputPdf.present
    /\ ~finalFile.present

\* C14: when the source URL of the embedded PDF cannot be resolved for an
\* article that is not skipped, the run stops, with no retry: no file is
\* written for the article, no later article is fetched, no post-processing
\* stage runs, and no step follows the failure.
C14_UnresolvedPdfStopsRun ==
    [][/\ failedAt' = "resolve" => StoppedAtArticle'
       /\ failedAt # "resolve"]_vars

\* the first of two articles could not be resolved
C14_Witness ==
    /\ failedAt = "resolve"
    /\ pc = "aborted"
    /\ cur = 1
    /\ Len(issue.articles) = 2

(***************************************************************************)
(* Claims about malformed citations                                        *)
(***************************************************************************)
\* a citation that has no list of parts "a" or "a-b" after a colon
Malformed(loc) == ~loc.colon \/ loc.parts = <<>>

CoverConfigured == publication_id \in {Economist, TechReview}

\* C16: whenever a cover image is configured for the publication, the
\* cover step (its tool working) leaves the cover as page 1 of the
\* single-page directory for the merge: a pages_1.pdf that is there, a
\* blank or an article page, is replaced, and no other page file is
\* changed.
C16_CoverReplacesPageOne ==
    [][(pc = "cover" /\ CoverConfigured /\ failedAt' \notin ToolFailures) =>
          /\ pc' = "merge"
          /\ Names(pagesdir') = Names(pagesdir) \cup {PageOne}
          /\ pagesdir'[PageOne] = <<CoverPage>>
          /\ \A n \in Names(pagesdir) \ {PageOne} :
                pagesdir'[n] = pagesdir[n]]_vars

(***************************************************************************)
(* Claims about the explode stage                                          *)
(***************************************************************************)
\* the pages a part "a" or "a-b" of a file name declares
DeclaredPart(part) ==
    LET ends == Split(part, Hyphen)
    IN  IF Len(ends) = 2 THEN IntVal(ends[1])..IntVal(ends[2])
        ELSE {IntVal(ends[1])}

\* the page list a file name declares, every range a-b expanded to a..b,
\* in ascending numeric order
DeclaredPages(name) ==
    Ascending(UNION {DeclaredPart(part) : part \in Range(Split(name, Comma))})

\* C17: of an article file whose name declares a page list (a range a-b
\* expanded to a..b), the i-th physical page is written to pages_<p_i>.pdf,
\* p_i the i-th declared page in ascending numeric order: pages_12-14.pdf
\* with three physical pages gives pages_12.pdf, pages_13.pdf, pages_14.pdf.
C17_ExplodeNamesPagesByDeclaredList ==
    pc = "gapfill" =>
        \A n \in Names(artdir3) :
            \A i \in 1..Min({Len(artdir3[n]), Len(DeclaredPages(n))}) :
                Extraction(n, i, Digits(DeclaredPages(n)[i]))
                    \in Range(extracted)

(***************************************************************************)
(* Claims about the order of the files within a stage                      *)
(***************************************************************************)
\* the three stages, run from the current state over the files in one order
LastPageStage(infps) == RemoveLastPages(infps, artdir1, Stage(artdir2))
CropBoxStage(infps) == RemoveCropBoxes(infps, artdir2, Stage(artdir3))
ExplodeStage(pagesfns) ==
    ExplodeFiles(pagesfns, artdir3,
                 [ok |-> TRUE, dir |-> pagesdir, log |-> <<>>])

\* whatever the order of the files, a stage that completes leaves the same
\* output directory
SameOutput(stage(_), names) ==
    Cardinality({r.dir : r \in {q \in {stage(o) : o \in Orders(names)} :
                                    q.ok}}) <= 1

\* two files of the directory declare one page
SharedPage(dir) ==
    \E f, g \in Names(dir) :
        /\ f # g
        /\ Range(get_pages_from_file(f)) \cap Range(get_pages_from_file(g))
              # {}

\* of the files declaring page p, the one natsort puts last
LastDeclaring(dir, p) ==
    CHOOSE f \in Names(dir) :
        /\ p \in Range(get_pages_from_file(f))
        /\ \A g \in Names(dir) \ {f} :
              p \in Range(get_pages_from_file(g)) => NatLess(g, f)

LastIndex(pages, p) == Max({i \in 1..Len(pages) : pages[i] = p})

\* C18 as stated: each of the three stages, when it completes, leaves the
\* same output files with the same content whatever the order its input
\* files are processed in.
C18_StagesOrderIndependent ==
    /\ pc = "strip_last" => SameOutput(LastPageStage, Names(artdir1))
    /\ pc = "strip_crop" => SameOutput(CropBoxStage, Names(artdir2))
    /\ pc = "explode" => SameOutput(ExplodeStage, Names(artdir3))

\* C18 amended: the two strip stages are order-independent; the explode
\* stage is order-independent when no two files of its input directory
\* declare the same page, and otherwise pages_<N>.pdf holds the page of the
\* file declaring N that the natural sort puts last.
C18_ExplodeOrderMattersOnSharedPages ==
    /\ pc = "strip_last" => SameOutput(LastPageStage, Names(artdir1))
    /\ pc = "strip_crop" => SameOutput(CropBoxStage, Names(artdir2))
    /\ (pc = "explode" /\ ~SharedPage(artdir3)) =>
          SameOutput(ExplodeStage, Names(artdir3))
    /\ pc = "gapfill" =>
          \A p \in PageStrings(artdir3) :
              LET f == LastDeclaring(artdir3, p)
              IN  pagesdir[p] =
                      <<artdir3[f][LastIndex(ExplodeOrder(f), p)]>>

C18_Witness ==
    /\ pc = "gapfill"
    /\ SharedPage(artdir3)
    /\ \E o1, o2 \in Orders(Names(artdir3)) :
          /\ ExplodeStage(o1).ok /\ ExplodeStage(o2).ok
          /\ ExplodeStage(o1).dir # ExplodeStage(o2).dir


(***************************************************************************)
(* Claims about a crash in download_article                                *)
(***************************************************************************)
\* download_article is past the update of the downloaded pages and has not
\* returned
InDownload == pc \in {"navigate", "captcha", "resolve"}

\* the file of article k, as the run found it, was written to its end
WrittenWhole(k) ==
    FileOf(issue.articles[k], atStart.artdir1, atStart.tocdir) # Truncated

\* the pages of the article in download are in the downloaded-pages set
PagesAddedBeforeAttempt ==
    InDownload => page_range(issue.articles[cur]) \subseteq downloaded_pages

\* C19: download_article adds the article's pages to the downloaded-pages
\* set before the download attempt, and a crash between that update and the
\* completion of the file write does not make the restarted run skip the
\* article: no article is skipped as already downloaded on the file a crash
\* left before its write was complete.
C19_CrashInDownloadNotSkipped ==
    /\ PagesAddedBeforeAttempt
    /\ run >= 2 =>
          \A k \in 1..Len(outcome) :
              (outcome[k] = "exists" /\ HadFile(k)) => WrittenWhole(k)

(***************************************************************************)
(* Claims about the captcha                                                *)
(***************************************************************************)
LastEvent(l) == l[Len(l)]

\* a step that leaves the wait for the operator is the operator's input,
\* and leads to the navigation of the same article
BlocksUntilInput ==
    pc = "captcha" =>
        /\ log' = Append(log, Event("input", issue.articles[cur].pdfurl))
        /\ pc' = "navigate"
        /\ cur' = cur

\* a navigation step opens the URL of the article in download
NavigatesToArticle ==
    pc = "navigate" =>
        /\ log' = Append(log, Event("get", issue.articles[cur].pdfurl))
        /\ cur' = cur

\* a step that fetches a PDF comes right after a navigation to the
\* article's URL that was followed by no wait for the operator
FetchAfterClearNavigation ==
    (Len(log') > Len(log) /\ log'[Len(log) + 1].op = "fetch") =>
        /\ Len(log) > 0
        /\ LastEvent(log) = Event("get", log'[Len(log) + 1].url)
        /\ pc = "resolve"

CaptchaSafety ==
    [][BlocksUntilInput /\ NavigatesToArticle /\ FetchAfterClearNavigation]_vars

\* C20 as stated: after a challenge the process waits for the operator and
\* navigates to the same URL again, the PDF is fetched only after a
\* navigation without challenge, and once the challenges have stopped the
\* article is downloaded.
C20_CaptchaRetriedUntilDownloaded ==
    /\ CaptchaSafety
    /\ \A k \in 1..MaxItems :
          (pc = "captcha" /\ cur = k) ~>
              (Len(outcome) >= k /\ outcome[k] = "fetched")

\* C20 amended: ... and once the challenges have stopped the article is
\* downloaded, or the wait for its embedded PDF times out and the run ends.
C20_CaptchaRetriedUntilDownloadedOrTimeout ==
    /\ CaptchaSafety
    /\ \A k \in 1..MaxItems :
          (pc = "captcha" /\ cur = k) ~>
              \/ Len(outcome) >= k /\ outcome[k] = "fetched"
              \/ failedAt = "resolve" /\ cur = k

C20_Witness ==
    \E j \in 1..Len(log) :
        /\ j + 3 <= Len(log)
        /\ log[j].op = "get" /\ log[j + 1].op = "input"
        /\ log[j + 2].op = "get" /\ log[j + 3].op = "fetch"
        /\ \A d \in 1..3 : log[j + d].url = log[j].url


(***************************************************************************)
(* Claims about the order of the assembler                                 *)
(***************************************************************************)
\* the step fetches the cover image
CoverStep ==
    /\ Len(log') = Len(log) + 1
    /\ log'[Len(log')].op = "fetch_cover"

\* the step writes output.pdf
MergeStep == ~outputPdf.present /\ outputPdf'.present

\* the step writes the bookmarked document
BookmarkStep == pc = "bookmarks" /\ pc' # pc

\* the step runs ps2pdf
CompressStep == pc = "compress" /\ pc' # pc

\* the step puts the document at the output path and ends the run
MoveStep == pc' = "done" /\ pc # "done"

\* bookmarks, compression and move follow the merge in this order
AfterMergeInOrder ==
    /\ MergeStep => pc' = "bookmarks"
    /\ BookmarkStep => outputPdf.present /\ pc' = "compress"
    /\ CompressStep => outputPdf.present /\ pc' \in {"move", "aborted"}
    /\ MoveStep => pc = "move" /\ finalFile' = outputPdf

\* C21 as stated: merge, then cover, then bookmarks, then compression, then
\* the move; the cover step starts when the merge has been made.
C21_MergeThenCover ==
    [][/\ CoverStep => outputPdf.present
       /\ AfterMergeInOrder]_vars

\* C21 amended: cover, then merge, then bookmarks, then compression, then
\* the move: the cover is written to the single-page directory before the
\* merge, and the merged document starts with it.
C21_CoverThenMerge ==
    [][/\ CoverStep => ~outputPdf.present /\ pc' \in {"merge", "aborted"}
       /\ MergeStep =>
             /\ pc = "merge"
             /\ publication_id = Economist =>
                   /\ \E j \in 1..Len(log) : log[j].op = "fetch_cover"
                   /\ outputPdf'.pages[1] = CoverPage
       /\ AfterMergeInOrder]_vars

C21_Witness ==
    /\ pc = "done"
    /\ finalFile.present
    /\ finalFile.pages[1] = CoverPage
    /\ \E j \in 1..Len(log) : log[j].op = "fetch_cover"


(***************************************************************************)
(* Claims about the fetch and the sleep of an article                      *)
(***************************************************************************)
\* the positions of the events op of a URL in the log
Positions(op, url) ==
    {j \in 1..Len(log) : log[j] = Event(op, url)}

\* article k is in its sleep
InSleep(k) == pc = "sleep" /\ cur = k

\* C22: each article that is not skipped causes exactly one fetch of its
\* PDF, followed by one sleep of a duration within sleep_time, before the
\* next article is processed; a skipped article causes no fetch and no
\* sleep.
C22_OneFetchOneSleepPerArticle ==
    /\ pc = "sleep" =>
          sleep_time[1] <= sleeping /\ sleeping <= sleep_time[2]
    /\ \A k \in 1..Len(outcome) :
          LET url == issue.articles[k].pdfurl
          IN  /\ outcome[k] \in {"covered", "exists"} =>
                    Positions("fetch", url) = {} /\ Positions("sleep", url) = {}
              /\ outcome[k] = "fetched" =>
                    /\ Cardinality(Positions("fetch", url)) = 1
                    /\ IF InSleep(k) THEN Positions("sleep", url) = {}
                       ELSE /\ cur > k
                            /\ \E j \in Positions("fetch", url) :
                                  Positions("sleep", url) = {j + 1}

C22_Witness ==
    \E k, j \in 1..Len(outcome) :
        /\ outcome[k] = "fetched"
        /\ Positions("sleep", issue.articles[k].pdfurl) # {}
        /\ outcome[j] = "covered"


(***************************************************************************)
(* Claims about economist_rename_toc                                       *)
(***************************************************************************)
\* the step is economist_rename_toc at work on the downloaded TOC
RenamesToc ==
    /\ pc = "rename_toc"
    /\ pc' # pc
    /\ publication_id = Economist
    /\ issue.toc
    /\ TocFile \in Names(tocdir)

\* the TOC without its last page
StrippedToc == SubSeq(tocdir[TocFile], 1, Len(tocdir[TocFile]) - 1)

\* the start page printed on the TOC and the TOC's length are within the
\* bounds
TocInBounds ==
    /\ Len(StrippedToc) \in 1..5
    /\ StrippedToc[1].pp \in 1..10

\* the file name lists the pages start..start+count-1
ListsTocPages(name) ==
    LET pages == Split(name, Comma)
    IN  /\ Len(pages) = Len(StrippedToc)
        /\ \A i \in 1..Len(pages) :
              /\ IsInt(pages[i])
              /\ IntVal(pages[i]) = StrippedToc[1].pp + i - 1

\* C23: economist_rename_toc copies the TOC into the article directory only
\* if the start page is in 1..10 and the page count in 1..5; otherwise the
\* run aborts and no file is created there; on success the file name lists
\* exactly the pages start..start+count-1.
C23_TocRenamedWithinBounds ==
    [][RenamesToc =>
          IF TocInBounds
          THEN /\ pc' = "generate_toc"
               /\ \E name \in Names(artdir3') :
                     /\ ListsTocPages(name)
                     /\ artdir3'[name] = StrippedToc
                     /\ Names(artdir3') = Names(artdir3) \cup {name}
                     /\ \A n \in Names(artdir3) \ {name} :
                           artdir3'[n] = artdir3[n]
          ELSE /\ pc' = "aborted"
               /\ artdir3' = artdir3]_vars

\* a TOC at the upper bounds has been renamed
C23_Witness ==
    /\ pc = "generate_toc"
    /\ publication_id = Economist
    /\ Len(tocdir[TocFile]) = 6
    /\ tocdir[TocFile][1].pp = 10
    /\ Cardinality(Names(artdir3)) = 2


(***************************************************************************)
(* Claims about the files of the two strip stages                          *)
(***************************************************************************)
\* the stage has left in outdir one file for every file of indir, under the
\* same name, and has changed no other name of outdir
OneToOne(indir, outdir_before, outdir_after) ==
    /\ Names(outdir_after) = Names(outdir_before) \cup Names(indir)
    /\ \A n \in Names(outdir_before) \ Names(indir) :
          outdir_after[n] = outdir_before[n]

\* C24: strip-last-page and strip-crop-box are 1:1: when the stage ends,
\* the output directory holds one file of the same name for every file of
\* the input directory, the stage has left no file of another name there,
\* and the input directory is unchanged.
C24_StripStagesOneToOne ==
    [][/\ (pc = "strip_last" /\ pc' = "strip_crop") =>
             OneToOne(artdir1, artdir2, artdir2') /\ artdir1' = artdir1
       /\ (pc = "strip_crop" /\ pc' = "rename_toc") =>
             OneToOne(artdir2, artdir3, artdir3') /\ artdir2' = artdir2]_vars

C24_Witness ==
    /\ pc = "rename_toc"
    /\ Cardinality(Names(artdir1)) >= 2
    /\ Names(artdir2) = Names(artdir1)
    /\ Names(artdir1) \subseteq Names(artdir3)


(***************************************************************************)
(* Claims about the gap-filler without pages                               *)
(***************************************************************************)
\* C25: insert_white_pages_in_issue, given an input directory without
\* files, aborts the run: no blank page is written, and no later stage
\* runs.
C25_GapFillAbortsWithoutPages ==
    [][/\ (pc = "gapfill" /\ Names(artdir3) = {}) =>
             /\ pc' = "aborted"
             /\ pagesdir' = pagesdir
             /\ log' = log
             /\ outputPdf' = outputPdf
             /\ finalFile' = finalFile
       /\ pc # "aborted"]_vars

C25_Witness ==
    /\ pc = "aborted"
    /\ failedAt = "gapfill"
    /\ Names(artdir3) = {}
    /\ Names(pagesdir) = {}


(***************************************************************************)
(* Claims about the two branches of the TOC resolver                       *)
(***************************************************************************)
\* the article directory holds a file with a page of the supplied TOC
SuppliedTocAdded ==
    \E n \in Names(artdir3) :
        \E i \in 1..Len(artdir3[n]) :
            /\ artdir3[n][i].kind = "page"
            /\ items[artdir3[n][i].src].title = TocTitle

\* the article directory holds the generated TOC
GeneratedTocAdded ==
    /\ GeneratedTocName \in Names(artdir3)
    /\ \A i \in 1..Len(artdir3[GeneratedTocName]) :
          artdir3[GeneratedTocName][i].kind = "gentoc"

\* C26: when economist_rename_toc and generate_toc have both returned,
\* exactly one of them has added a TOC file to the article directory, never
\* both and never neither; a supplied TOC of a publication other than The
\* Economist is among the files that make the final document.
C26_ExactlyOneTocBranch ==
    pc = "explode" => (SuppliedTocAdded # GeneratedTocAdded)


(***************************************************************************)
(* Claims about issue.toc                                                  *)
(***************************************************************************)
\* C27: after retrieve_articles_list, issue.toc is true if and only if the
\* article list holds an article with is_toc true, also when the result
\* entry "Table of Contents" has no PDF link.
C27_TocFlagIffTocArticle ==
    pc = "download" =>
        (issue.toc <=> \E k \in 1..Len(issue.articles) :
                           issue.articles[k].is_toc)


(***************************************************************************)
(* Claims about the fetch killed and run again                             *)
(***************************************************************************)
\* the articles a fetch of the list from article k on downloads when it is
\* not interrupted and starts in an empty directory, given the pages
\* downloaded before k: those with a page no article before them has
RECURSIVE Uninterrupted(_, _, _)
Uninterrupted(articles, k, downloaded) ==
    IF k > Len(articles) THEN {}
    ELSE IF page_range(articles[k]) \subseteq downloaded
    THEN Uninterrupted(articles, k + 1, downloaded)
    ELSE {k} \cup Uninterrupted(articles, k + 1,
                                downloaded \cup page_range(articles[k]))

UninterruptedFetch == Uninterrupted(issue.articles, 1, {})

\* the fetcher has gone through the article list
FetchComplete == pc = "download" /\ cur > Len(issue.articles)

\* C28: a fetch killed and run again with --continue-download over the same
\* article list ends with the file names of an uninterrupted fetch in the
\* raw article directory and the TOC directory, and skips as covered the
\* articles the uninterrupted fetch skips.
C28_RerunSameFilesAsUninterrupted ==
    FetchComplete =>
        /\ Names(artdir1) =
              {pages_str(issue.articles[k]) :
                  k \in {j \in UninterruptedFetch : ~issue.articles[j].is_toc}}
        /\ Names(tocdir) =
              {TocFile : k \in {j \in UninterruptedFetch :
                                    issue.articles[j].is_toc}}
        /\ \A k \in 1..Len(issue.articles) :
              outcome[k] = "covered" <=> k \notin UninterruptedFetch

C28_Witness ==
    /\ FetchComplete
    /\ run = 2
    /\ \E k, j \in 1..Len(issue.articles) :
          outcome[k] = "exists" /\ outcome[j] = "fetched"


(***************************************************************************)
(* Claims about the final output file                                      *)
(***************************************************************************)
\* what each step of main leaves when it has completed
FetchCompleted ==
    /\ cur > Len(issue.articles)
    /\ \A k \in 1..Len(outcome) :
          outcome[k] \in {"fetched", "covered", "exists"}
StripsCompleted ==
    /\ Names(artdir1) \subseteq Names(artdir2)
    /\ Names(artdir2) \subseteq Names(artdir3)
TocResolved == SuppliedTocAdded \/ GeneratedTocAdded
ExplodeCompleted ==
    \A n \in Names(artdir3) : \E e \in Range(extracted) : e.from = n
GapFillCompleted == Names(pagesdir) = PageFiles(Max(KnownPages))
CoverCompleted == pagesdir[PageOne] = <<CoverPage>>
MergeCompleted == outputPdf.present /\ mergeCmd = MergeOrder(pagesdir)
BookmarksCompleted == bookmarks = BookmarkLines(issue.articles)

\* no step of the run has raised: a tool was refused, an assertion failed
NoStepFailed == failedAt = "none"

\* the step is a step of main that changes the file at the output path
RunWritesOutput == finalFile' # finalFile /\ pc' # pc

\* C29: the run puts the final file at the output path only when fetch,
\* both strips, TOC resolution, explode, gap-fill, cover, merge, bookmarks
\* and compression have completed; a run that aborts leaves the output
\* path as it is, and does nothing after it has aborted.
C29_OutputOnlyAfterAllSteps ==
    [][/\ RunWritesOutput =>
             /\ pc = "move" /\ pc' = "done"
             /\ finalFile' = outputPdf
             /\ NoStepFailed
             /\ FetchCompleted /\ StripsCompleted /\ TocResolved
             /\ ExplodeCompleted /\ GapFillCompleted /\ CoverCompleted
             /\ MergeCompleted /\ BookmarksCompleted
       /\ pc' = "aborted" => finalFile' = finalFile
       /\ pc = "aborted" => run' = run + 1 /\ finalFile' = finalFile]_vars

C29_Witness ==
    /\ pc = "done"
    /\ NoStepFailed
    /\ finalFile.present
    /\ Len(finalFile.pages) >= 3
    /\ run = 2


(***************************************************************************)
(* Claims about the start of main                                          *)
(***************************************************************************)
TmpdirOnDisk == "tmpdir" \in existing

\* C30: main raises the "temporary directory already exists" error only
\* when the temporary directory is on disk and --continue-download was not
\* given, and a run whose temporary directory is not on disk does not abort
\* before its working directories are made.
C30_TmpdirErrorOnlyWhenExisting ==
    /\ (pc = "aborted" /\ failedAt = TmpdirExistsError) =>
           (TmpdirOnDisk /\ ~args.continue_download)
    /\ ~TmpdirOnDisk => pc # "aborted"

====
